---- MODULE Spec2Model ----
(***************************************************************************)
(* Model of the two scripts of the Miami theater voice agent:              *)
(*   elevenlabs/setup_agent.py       the provisioning run (Provisioner)    *)
(*   elevenlabs/test_integration.py  the validation run   (Validator)      *)
(*                                                                         *)
(* Strings are sequences of chunks, so that concatenation is \o.  Python's *)
(* None and the empty string are both the empty sequence: wherever either  *)
(* can occur the code only truth-tests the value.  A dict is a function    *)
(* whose DOMAIN is its key set.  The record file agent_config.json is a    *)
(* sequence of JSON tokens, so that a write that stops early leaves a      *)
(* prefix.                                                                 *)
(***************************************************************************)
EXTENDS Integers, Sequences, FiniteSets, TLC

VARIABLES
    env,           \* os.environ, as far as the running process reads it
    pc,            \* position of setup_agent.main
    config,        \* setup_agent.main: config (load_config's result)
    warned,        \* load_config printed the placeholder warning
    tool_id,       \* setup_agent.main: tool_id
    agent_id,      \* setup_agent.main: agent_id
    exit_code,     \* exit status of the provisioning process (None while running)
    calls,         \* remote create calls issued by the current provisioning run
    runs,          \* provisioning runs started so far
    file,          \* agent_config.json: [exists, content]
    fileAtStart,   \* agent_config.json as it was when the current run started
    lastSuccess,   \* identifiers and URL of the latest run that ended Persisted
    remoteTools,   \* tools stored on the platform
    remoteAgents,  \* agents stored on the platform
    vpc,           \* position of test_integration.main
    vconfig,       \* test_integration.main: base_url, tool_id, agent_id
    vcase,         \* test_api_endpoint: index of the next test case
    vcalls,        \* HTTP GETs issued by the current validation run
    vresponse,     \* test_*: response, the last HTTP exchange
    vreport,       \* what the last executed check step printed
    vfailed,       \* checks of the current validation run that reported a failure
    vruns          \* validation runs started so far

vars == <<env, pc, config, warned, tool_id, agent_id, exit_code, calls, runs, file,
          fileAtStart, lastSuccess, remoteTools, remoteAgents, vpc, vconfig, vcase, vcalls,
          vresponse, vreport, vfailed, vruns>>

\* the locals of a provisioning process, of a validation process
provLocals == <<pc, config, warned, tool_id, agent_id, exit_code, calls>>
valLocals == <<vpc, vconfig, vcase, vcalls, vresponse, vreport, vfailed>>
provVars == <<provLocals, runs, fileAtStart, lastSuccess>>
valVars == <<valLocals, vruns>>
remoteVars == <<remoteTools, remoteAgents>>

-----------------------------------------------------------------------------
(* Bounds *)

MaxRuns == 2
MaxValidations == 1

-----------------------------------------------------------------------------
(* Values *)

None == <<>>

\* Python truthiness of a string-or-None value
Truthy(x) == x # <<>>

PlaceholderUrl == <<"https://your-vercel-app.vercel.app">>
ApiPath == <<"/api/showtimes">>
CreatedAt == <<"2024-01-15T10:00:00Z">>
ResponseTimeoutSecs == 10

EnvNames == {"ELEVENLABS_API_KEY", "VERCEL_APP_URL"}
ApiKeys == {<<"xi-key">>, <<>>}
Urls == {<<"https://a.example">>, PlaceholderUrl}

\* the environments a run can be started in: each variable unset or set
Environments ==
    {e \in UNION {[D -> ApiKeys \cup Urls] : D \in SUBSET EnvNames} :
        /\ "ELEVENLABS_API_KEY" \in DOMAIN e => e["ELEVENLABS_API_KEY"] \in ApiKeys
        /\ "VERCEL_APP_URL" \in DOMAIN e => e["VERCEL_APP_URL"] \in Urls}

\* the variables among names, as e sets them
Restrict(e, names) == [n \in DOMAIN e \cap names |-> e[n]]

\* os.getenv(name, default)
Getenv(e, name, default) == IF name \in DOMAIN e THEN e[name] ELSE default

\* dict.get(key, default)
Get(d, key, default) == IF key \in DOMAIN d THEN d[key] ELSE default

-----------------------------------------------------------------------------
(* setup_agent.py *)

\* load_config without the check of api_key
LoadConfig_NoCheck(e) ==
    [api_key |-> Getenv(e, "ELEVENLABS_API_KEY", None),
     vercel_url |-> Getenv(e, "VERCEL_APP_URL", PlaceholderUrl)]

\* load_config exiting when VERCEL_APP_URL is unset instead of warning
LoadConfig_UrlRequired(e) ==
    LET api_key == Getenv(e, "ELEVENLABS_API_KEY", None)
        vercel_url == Getenv(e, "VERCEL_APP_URL", None)
    IN  IF ~Truthy(api_key) \/ ~Truthy(vercel_url) THEN None
        ELSE [api_key |-> api_key, vercel_url |-> vercel_url]

\* load_config: the dict it returns, None when it exits instead
LoadConfig(e) ==
    LET api_key == Getenv(e, "ELEVENLABS_API_KEY", None)
        vercel_url == Getenv(e, "VERCEL_APP_URL", PlaceholderUrl)
    IN  IF ~Truthy(api_key) THEN None
        ELSE [api_key |-> api_key, vercel_url |-> vercel_url]

\* load_config prints the placeholder warning
PlaceholderWarning(e) ==
    Getenv(e, "VERCEL_APP_URL", PlaceholderUrl) = PlaceholderUrl

\* api_schema with the path left out of the URL and one more parameter declared
ApiSchema_Drift(vercel_url) ==
    [url |-> vercel_url,
     method |-> "GET",
     query_params_schema |->
        [type |-> "object",
         properties |->
            [date |-> [type |-> "string", format |-> "date"],
             movie_title |-> [type |-> "string"],
             theater |-> [type |-> "string"],
             day_type |-> [type |-> "string",
                           enum |-> <<"today", "tomorrow", "weekend">>],
             time_preference |-> [type |-> "string",
                                  enum |-> <<"afternoon", "evening", "night">>]],
         additionalProperties |-> FALSE],
     request_headers |->
        [ContentType |-> "application/json", UserAgent |-> "ElevenLabs-Agent/1.0"]]

\* create_webhook_tool: api_schema
ApiSchema(vercel_url) ==
    [url |-> vercel_url \o ApiPath,
     method |-> "GET",
     query_params_schema |->
        [type |-> "object",
         properties |->
            [date |-> [type |-> "string", format |-> "date"],
             movie_title |-> [type |-> "string"],
             day_type |-> [type |-> "string",
                           enum |-> <<"today", "tomorrow", "weekend">>],
             time_preference |-> [type |-> "string",
                                  enum |-> <<"afternoon", "evening", "night">>]],
         additionalProperties |-> FALSE],
     request_headers |->
        [ContentType |-> "application/json", UserAgent |-> "ElevenLabs-Agent/1.0"]]

\* create_webhook_tool: webhook_config
WebhookConfig(vercel_url) ==
    [name |-> "Miami Theater Showtimes",
     response_timeout_secs |-> ResponseTimeoutSecs,
     api_schema |-> ApiSchema(vercel_url)]

\* the prompt built without the tool
BoundTools_Empty(tid) == <<>>

\* create_agent: the tools bound in the prompt
BoundTools(tid) == IF Truthy(tid) THEN <<tid>> ELSE <<>>

\* create_agent: agent_config
AgentConfig(tid) ==
    [name |-> "Miami Theater Voice Assistant",
     conversation_config |->
        [agent |->
            [prompt |-> [prompt |-> "system_prompt", tools |-> BoundTools(tid)],
             first_message |-> "Hi! I'm your Miami theater assistant."]]]

\* main without the exit after a failed tool registration
ToolIdMissing_Never(tid) == FALSE

\* main: if not tool_id: ... sys.exit(1)
ToolIdMissing(tid) == ~Truthy(tid)

\* main without the exit after a failed agent registration
AgentIdMissing_Never(aid) == FALSE

\* main: if not agent_id: ... sys.exit(1)
AgentIdMissing(aid) == ~Truthy(aid)

\* identifiers the platform assigns
NewToolId == <<"tool", Cardinality(remoteTools) + 1>>
NewAgentId == <<"agent", Cardinality(remoteAgents) + 1>>

\* outcomes of a remote create call:
\*   ok        stored, identifier returned
\*   rejected  not stored, the client raises (non-success status)
\*   transport not stored, the client raises (request never arrived)
\*   lost      stored, the client raises (response never arrived)
CreateOutcomes == {"ok", "rejected", "transport", "lost"}
Stored(outcome) == outcome \in {"ok", "lost"}

\* main: setup_config
SetupConfig ==
    [tool_id |-> tool_id,
     agent_id |-> agent_id,
     vercel_url |-> config.vercel_url,
     created_at |-> CreatedAt]

RecordKeys == <<"tool_id", "agent_id", "vercel_url", "created_at">>

\* json.dump: the tokens written for a dict of the record's keys
JsonDump(d) ==
    <<<<"{">>>> \o [i \in 1..Len(RecordKeys) |-> <<RecordKeys[i], d[RecordKeys[i]]>>]
               \o <<<<"}">>>>

\* whether a file content is a complete JSON object
JsonValid(content) ==
    /\ Len(content) >= 2
    /\ content[1] = <<"{">>
    /\ content[Len(content)] = <<"}">>
    /\ \A i \in 2..(Len(content) - 1) : Len(content[i]) = 2

\* json.load of a valid content: the dict
JsonLoad(content) ==
    LET keys == {content[i][1] : i \in 2..(Len(content) - 1)}
    IN  [k \in keys |->
            LET i == CHOOSE j \in 2..(Len(content) - 1) : content[j][1] = k
            IN  content[i][2]]

ProvisionIdle == pc \in {"Idle", "Persisted", "Failed", "Interrupted"}
ValidationIdle == vpc \in {"Idle", "Done", "Aborted", "Crashed"}

NoDict == [n \in {} |-> None]

\* what one step of a check printed
Report(check, marker, status, fields, detail) ==
    [check |-> check, marker |-> marker, status |-> status, fields |-> fields,
     detail |-> detail]

NoReport == Report("", "", 0, NoDict, None)

\* An HTTP exchange as the requests library presents it: the call raises, or it
\* returns a response with a status code and a body that parses as JSON or does not.
Raised == [raises |-> TRUE, status |-> 0, is_json |-> FALSE, body |-> None]
Response(status, is_json, body) ==
    [raises |-> FALSE, status |-> status, is_json |-> is_json, body |-> body]
NoResponse == [raises |-> FALSE, status |-> 0, is_json |-> FALSE, body |-> None]

\* the processes run one at a time: when one starts, the one before it has
\* exited and its locals are gone
ProvisionExited ==
    /\ pc' = "Idle"
    /\ config' = None
    /\ warned' = FALSE
    /\ tool_id' = None
    /\ agent_id' = None
    /\ exit_code' = None
    /\ calls' = <<>>

ValidationExited ==
    /\ vpc' = "Idle"
    /\ vconfig' = None
    /\ vcase' = 0
    /\ vcalls' = <<>>
    /\ vresponse' = NoResponse
    /\ vreport' = NoReport
    /\ vfailed' = {}

\* a new process runs main up to and including load_config
ProvisionStart(e) ==
    /\ ProvisionIdle
    /\ ValidationIdle
    /\ runs < MaxRuns
    /\ runs' = runs + 1
    /\ env' = Restrict(e, {"ELEVENLABS_API_KEY", "VERCEL_APP_URL"})
    /\ tool_id' = None
    /\ agent_id' = None
    /\ calls' = <<>>
    /\ fileAtStart' = file
    /\ config' = LoadConfig(e)
    /\ warned' = (LoadConfig(e) # None /\ PlaceholderWarning(e))
    /\ IF LoadConfig(e) = None
         THEN pc' = "Failed" /\ exit_code' = <<1>>
         ELSE pc' = "ConfigLoaded" /\ exit_code' = None
    /\ ValidationExited
    /\ UNCHANGED <<file, lastSuccess, remoteVars, vruns>>

\* a failed tool registration tried once more instead of ending the run
CreateWebhookTool_Retry(outcome) ==
    /\ pc = "ConfigLoaded"
    /\ LET request == WebhookConfig(config.vercel_url)
           result == IF outcome = "ok" THEN NewToolId ELSE None
       IN  /\ calls' = Append(calls, [op |-> "tools.create", request |-> request,
                                      result |-> result])
           /\ remoteTools' = IF Stored(outcome)
                               THEN remoteTools \cup {[tool_id |-> NewToolId,
                                                       tool_config |-> request]}
                               ELSE remoteTools
           /\ tool_id' = result
           /\ IF ToolIdMissing(result)
                THEN IF Len(calls) = 0
                       THEN pc' = pc /\ UNCHANGED exit_code
                       ELSE pc' = "Failed" /\ exit_code' = <<1>>
                ELSE pc' = "ToolRegistered" /\ UNCHANGED exit_code
    /\ UNCHANGED <<env, config, warned, agent_id, runs, file, fileAtStart, lastSuccess,
                   remoteAgents, valVars>>

\* main: tool_id = create_webhook_tool(...), and the exit when it is falsy
CreateWebhookTool(outcome) ==
    /\ pc = "ConfigLoaded"
    /\ LET request == WebhookConfig(config.vercel_url)
           result == IF outcome = "ok" THEN NewToolId ELSE None
       IN  /\ calls' = Append(calls, [op |-> "tools.create", request |-> request,
                                      result |-> result])
           /\ remoteTools' = IF Stored(outcome)
                               THEN remoteTools \cup {[tool_id |-> NewToolId,
                                                       tool_config |-> request]}
                               ELSE remoteTools
           /\ tool_id' = result
           /\ IF ToolIdMissing(result)
                THEN pc' = "Failed" /\ exit_code' = <<1>>
                ELSE pc' = "ToolRegistered" /\ UNCHANGED exit_code
    /\ UNCHANGED <<env, config, warned, agent_id, runs, file, fileAtStart, lastSuccess, remoteAgents,
                   valVars>>

\* a failed agent registration followed by the deletion of the run's tool
CreateAgent_Rollback(outcome) ==
    /\ pc = "ToolRegistered"
    /\ LET request == AgentConfig(tool_id)
           result == IF outcome = "ok" THEN NewAgentId ELSE None
       IN  /\ calls' = Append(calls, [op |-> "agents.create", request |-> request,
                                      result |-> result])
           /\ remoteAgents' = IF Stored(outcome)
                                THEN remoteAgents \cup {[agent_id |-> NewAgentId,
                                                         agent_config |-> request]}
                                ELSE remoteAgents
           /\ agent_id' = result
           /\ IF AgentIdMissing(result)
                THEN /\ pc' = "Failed"
                     /\ exit_code' = <<1>>
                     /\ remoteTools' = {t \in remoteTools : t.tool_id # tool_id}
                ELSE /\ pc' = "AgentRegistered"
                     /\ UNCHANGED <<exit_code, remoteTools>>
    /\ UNCHANGED <<env, config, warned, tool_id, runs, file, fileAtStart, lastSuccess,
                   valVars>>

\* main: agent_id = create_agent(...), and the exit when it is falsy
CreateAgent(outcome) ==
    /\ pc = "ToolRegistered"
    /\ LET request == AgentConfig(tool_id)
           result == IF outcome = "ok" THEN NewAgentId ELSE None
       IN  /\ calls' = Append(calls, [op |-> "agents.create", request |-> request,
                                      result |-> result])
           /\ remoteAgents' = IF Stored(outcome)
                                THEN remoteAgents \cup {[agent_id |-> NewAgentId,
                                                         agent_config |-> request]}
                                ELSE remoteAgents
           /\ agent_id' = result
           /\ IF AgentIdMissing(result)
                THEN pc' = "Failed" /\ exit_code' = <<1>>
                ELSE pc' = "AgentRegistered" /\ UNCHANGED exit_code
    /\ UNCHANGED <<env, config, warned, tool_id, runs, file, fileAtStart, lastSuccess, remoteTools,
                   valVars>>

\* the file opened in mode 'a': created if absent, never truncated
PersistOpen_Append ==
    /\ pc = "AgentRegistered"
    /\ file' = [exists |-> TRUE, content |-> file.content]
    /\ pc' = "Writing"
    /\ UNCHANGED <<env, config, warned, tool_id, agent_id, exit_code, calls, runs, fileAtStart,
                   lastSuccess, remoteVars, valVars>>

\* main: open('agent_config.json', 'w') creates or truncates the file
PersistOpen ==
    /\ pc = "AgentRegistered"
    /\ file' = [exists |-> TRUE, content |-> <<>>]
    /\ pc' = "Writing"
    /\ UNCHANGED <<env, config, warned, tool_id, agent_id, exit_code, calls, runs, fileAtStart,
                   lastSuccess, remoteVars, valVars>>

\* main: json.dump and the close of the file, then the process ends
PersistDump ==
    /\ pc = "Writing"
    /\ file' = [exists |-> TRUE, content |-> file.content \o JsonDump(SetupConfig)]
    /\ pc' = "Persisted"
    /\ exit_code' = <<0>>
    /\ lastSuccess' = <<tool_id, agent_id, config.vercel_url>>
    /\ UNCHANGED <<env, config, warned, tool_id, agent_id, calls, runs, fileAtStart,
                   remoteVars, valVars>>

\* the write stops after n tokens (the device fails or the process is killed):
\* nothing in main handles it, the file keeps what was written
PersistInterrupt(n) ==
    /\ pc = "Writing"
    /\ n < Len(JsonDump(SetupConfig))
    /\ file' = [exists |-> TRUE,
                 content |-> file.content \o SubSeq(JsonDump(SetupConfig), 1, n)]
    /\ pc' = "Interrupted"
    /\ exit_code' = <<1>>
    /\ UNCHANGED <<env, config, warned, tool_id, agent_id, calls, runs, fileAtStart,
                   lastSuccess, remoteVars, valVars>>

-----------------------------------------------------------------------------
(* test_integration.py *)

\* test_api_endpoint: test_cases
TestCases ==
    <<[day_type |-> "today"],
      [day_type |-> "tomorrow"],
      [day_type |-> "weekend"],
      [movie_title |-> "substance"],
      [time_preference |-> "evening", day_type |-> "today"]>>

HtmlText == <<"<html>Bad Gateway</html>">>

\* bodies the showtimes endpoint may answer with
ShowtimesBodies ==
    {[query_info |-> [results_count |-> 5], conversational_summary |-> <<"Found 5 movies">>],
     [query_info |-> [results_count |-> 0]],
     [error |-> <<"Internal error">>]}

EndpointResponses ==
    {Raised} \cup {Response(s, TRUE, b) : s \in {200, 500}, b \in ShowtimesBodies}
             \cup {Response(s, FALSE, HtmlText) : s \in {200, 500}}

\* test_api_endpoint: the body of the loop for one response
EndpointReport(i, resp) ==
    IF resp.raises \/ ~resp.is_json
      THEN Report("endpoint", "error", 0, [case |-> i], <<"exception">>)
      ELSE LET data == resp.body
               count == Get(Get(data, "query_info", NoDict),
                            "results_count", 0)
           IN  Report("endpoint", "none", resp.status,
                      [case |-> i, params |-> TestCases[i], results |-> count,
                       summary |-> "conversational_summary" \in DOMAIN data],
                      None)

\* test_elevenlabs_tool, test_agent_configuration: the URLs fetched
ToolsUrl == <<"https://api.elevenlabs.io/v1/convai/tools/">>
AgentsUrl == <<"https://api.elevenlabs.io/v1/convai/agents/">>

\* tool records the platform may answer a fetch with
ToolBodies(base_url) ==
    {[name |-> "Miami Theater Showtimes",
      tool_config |-> [api_schema |-> [url |-> base_url \o ApiPath, method |-> "GET"]]],
     [name |-> "Miami Theater Showtimes",
      tool_config |-> [api_schema |-> [url |-> <<"https://other.example">> \o ApiPath,
                                       method |-> "POST"]]],
     [name |-> "Another Tool"]}

FetchResponses(bodies) ==
    {Raised} \cup {Response(200, TRUE, b) : b \in bodies}
             \cup {Response(200, FALSE, HtmlText)}
             \cup {Response(s, TRUE, [detail |-> <<"not found">>]) : s \in {404, 500}}

\* test_elevenlabs_tool: what it prints for one response
ToolReport(resp) ==
    IF resp.raises THEN Report("tool", "error", 0, NoDict, <<"exception">>)
    ELSE IF resp.status = 200
      THEN IF ~resp.is_json THEN Report("tool", "error", 0, NoDict, <<"exception">>)
           ELSE LET tool_data == resp.body
                    api_schema == Get(Get(tool_data, "tool_config", NoDict),
                                      "api_schema", NoDict)
                IN  Report("tool", "found", 200,
                           [name |-> Get(tool_data, "name", <<"Unknown">>),
                            api_schema |-> api_schema],
                           None)
      ELSE Report("tool", "not found", resp.status, NoDict, resp.body)

\* agent records the platform may answer a fetch with
AgentBodies(tid) ==
    {[name |-> "Miami Theater Voice Assistant",
      conversation_config |-> [agent |-> [prompt |-> [tools |-> <<tid>>]]]],
     [name |-> "Miami Theater Voice Assistant",
      conversation_config |-> [agent |-> [prompt |-> [tools |-> <<>>]]]],
     [name |-> "Miami Theater Voice Assistant"]}

\* test_agent_configuration: what it prints for one response
AgentReport(resp) ==
    IF resp.raises THEN Report("agent", "error", 0, NoDict, <<"exception">>)
    ELSE IF resp.status = 200
      THEN IF ~resp.is_json THEN Report("agent", "error", 0, NoDict, <<"exception">>)
           ELSE LET agent_data == resp.body
                    conversation_config == Get(agent_data, "conversation_config", NoDict)
                    agent_config == Get(conversation_config, "agent", NoDict)
                    prompt_config == Get(agent_config, "prompt", NoDict)
                    tools == Get(prompt_config, "tools", <<>>)
                IN  Report("agent", "found", 200,
                           [name |-> Get(agent_data, "name", <<"Unknown">>),
                            tools_configured |-> Len(tools), tools |-> tools],
                           None)
      ELSE Report("agent", "not found", resp.status, NoDict, resp.body)

\* a step printed a failure or an error
ReportsFailure(r) == r.marker \in {"error", "not found"}

\* main without the check that the record file exists
RecordMissing_Never(f) == FALSE

\* main: if not os.path.exists(config_file)
RecordMissing(f) == ~f.exists

\* a new process runs main up to the start of the checks
ValidateStart(e) ==
    /\ ValidationIdle
    /\ ProvisionIdle
    /\ vruns < MaxValidations
    /\ vruns' = vruns + 1
    /\ env' = Restrict(e, {"ELEVENLABS_API_KEY"})
    /\ vresponse' = NoResponse
    /\ vcalls' = <<>>
    /\ vfailed' = {}
    /\ IF RecordMissing(file)
         THEN /\ vpc' = "Aborted"
              /\ vreport' = Report("main", "error", 0, NoDict, <<"MissingLocalRecord">>)
              /\ vconfig' = None
              /\ vcase' = 0
         ELSE IF ~JsonValid(file.content)
         THEN /\ vpc' = "Crashed"
              /\ vreport' = Report("main", "error", 0, NoDict, <<"JSONDecodeError">>)
              /\ vconfig' = None
              /\ vcase' = 0
         ELSE IF ~Truthy(Getenv(e, "ELEVENLABS_API_KEY", None))
         THEN /\ vpc' = "Aborted"
              /\ vreport' = Report("main", "error", 0, NoDict, <<"MissingCredential">>)
              /\ vconfig' = None
              /\ vcase' = 0
         ELSE LET cfg == JsonLoad(file.content)
              IN  /\ vpc' = "Loaded"
                  /\ vreport' = NoReport
                  /\ vconfig' = [api_key |-> Getenv(e, "ELEVENLABS_API_KEY", None),
                                 base_url |-> Get(cfg, "vercel_url", None),
                                 tool_id |-> Get(cfg, "tool_id", None),
                                 agent_id |-> Get(cfg, "agent_id", None)]
                  /\ vcase' = 1
    /\ ProvisionExited
    /\ UNCHANGED <<runs, fileAtStart, lastSuccess, file, remoteVars>>

\* the loop over test_cases left at the first case that fails
EndpointCase_Break(resp) ==
    /\ vpc = "Loaded"
    /\ vcase \in 1..Len(TestCases)
    /\ vcalls' = Append(vcalls, [op |-> "GET", url |-> vconfig.base_url \o ApiPath,
                                 params |-> TestCases[vcase]])
    /\ vresponse' = resp
    /\ vreport' = EndpointReport(vcase, resp)
    /\ vfailed' = IF ReportsFailure(EndpointReport(vcase, resp))
                    THEN vfailed \cup {"endpoint"} ELSE vfailed
    /\ IF vcase = Len(TestCases) \/ ReportsFailure(EndpointReport(vcase, resp))
         THEN vpc' = "EndpointChecked" /\ vcase' = 0
         ELSE vpc' = vpc /\ vcase' = vcase + 1
    /\ UNCHANGED <<env, provVars, file, remoteVars, vconfig, vruns>>

\* test_api_endpoint: one iteration of the loop over test_cases
EndpointCase(resp) ==
    /\ vpc = "Loaded"
    /\ vcase \in 1..Len(TestCases)
    /\ vcalls' = Append(vcalls, [op |-> "GET", url |-> vconfig.base_url \o ApiPath,
                                 params |-> TestCases[vcase]])
    /\ vresponse' = resp
    /\ vreport' = EndpointReport(vcase, resp)
    /\ vfailed' = IF ReportsFailure(EndpointReport(vcase, resp))
                    THEN vfailed \cup {"endpoint"} ELSE vfailed
    /\ IF vcase = Len(TestCases)
         THEN vpc' = "EndpointChecked" /\ vcase' = 0
         ELSE vpc' = vpc /\ vcase' = vcase + 1
    /\ UNCHANGED <<env, provVars, file, remoteVars, vconfig, vruns>>

\* test_elevenlabs_tool without its try/except: an exception ends the run
ToolCheck_Uncaught(resp) ==
    /\ vpc = "EndpointChecked"
    /\ vcalls' = Append(vcalls, [op |-> "GET",
                                 url |-> ToolsUrl \o vconfig.tool_id,
                                 params |-> NoDict])
    /\ vresponse' = resp
    /\ vreport' = ToolReport(resp)
    /\ vfailed' = IF ReportsFailure(ToolReport(resp)) THEN vfailed \cup {"tool"} ELSE vfailed
    /\ vpc' = IF ToolReport(resp).marker = "error" THEN "Crashed" ELSE "ToolChecked"
    /\ UNCHANGED <<env, provVars, file, remoteVars, vconfig, vcase, vruns>>

\* main: test_elevenlabs_tool(tool_id, api_key)
ToolCheck(resp) ==
    /\ vpc = "EndpointChecked"
    /\ vcalls' = Append(vcalls, [op |-> "GET",
                                 url |-> ToolsUrl \o vconfig.tool_id,
                                 params |-> NoDict])
    /\ vresponse' = resp
    /\ vreport' = ToolReport(resp)
    /\ vfailed' = IF ReportsFailure(ToolReport(resp)) THEN vfailed \cup {"tool"} ELSE vfailed
    /\ vpc' = "ToolChecked"
    /\ UNCHANGED <<env, provVars, file, remoteVars, vconfig, vcase, vruns>>

\* an agent that is not found created again by the check
AgentCheck_Recreate(resp) ==
    /\ vpc = "ToolChecked"
    /\ vcalls' = Append(vcalls, [op |-> "GET",
                                 url |-> AgentsUrl \o vconfig.agent_id,
                                 params |-> NoDict])
    /\ vresponse' = resp
    /\ vreport' = AgentReport(resp)
    /\ vfailed' = IF ReportsFailure(AgentReport(resp)) THEN vfailed \cup {"agent"} ELSE vfailed
    /\ remoteAgents' = IF ReportsFailure(AgentReport(resp))
                         THEN remoteAgents \cup {[agent_id |-> NewAgentId,
                                                  agent_config |-> AgentConfig(vconfig.tool_id)]}
                         ELSE remoteAgents
    /\ vpc' = "Done"
    /\ UNCHANGED <<env, provVars, file, remoteTools, vconfig, vcase, vruns>>

\* main: test_agent_configuration(agent_id, api_key), then the run ends
AgentCheck(resp) ==
    /\ vpc = "ToolChecked"
    /\ vcalls' = Append(vcalls, [op |-> "GET",
                                 url |-> AgentsUrl \o vconfig.agent_id,
                                 params |-> NoDict])
    /\ vresponse' = resp
    /\ vreport' = AgentReport(resp)
    /\ vfailed' = IF ReportsFailure(AgentReport(resp)) THEN vfailed \cup {"agent"} ELSE vfailed
    /\ vpc' = "Done"
    /\ UNCHANGED <<env, provVars, file, remoteVars, vconfig, vcase, vruns>>

-----------------------------------------------------------------------------

Init ==
    /\ env = NoDict
    /\ vresponse = NoResponse
    /\ pc = "Idle"
    /\ config = None
    /\ warned = FALSE
    /\ tool_id = None
    /\ agent_id = None
    /\ exit_code = None
    /\ calls = <<>>
    /\ runs = 0
    /\ file = [exists |-> FALSE, content |-> <<>>]
    /\ fileAtStart = [exists |-> FALSE, content |-> <<>>]
    /\ lastSuccess = None
    /\ remoteTools = {}
    /\ remoteAgents = {}
    /\ vpc = "Idle"
    /\ vconfig = None
    /\ vcase = 0
    /\ vcalls = <<>>
    /\ vreport = NoReport
    /\ vfailed = {}
    /\ vruns = 0

Next ==
    \/ \E e \in Environments : ProvisionStart(e)
    \/ \E o \in CreateOutcomes : CreateWebhookTool(o)
    \/ \E o \in CreateOutcomes : CreateAgent(o)
    \/ PersistOpen
    \/ PersistDump
    \/ \E e \in Environments : ValidateStart(e)
    \/ \E r \in EndpointResponses : EndpointCase(r)
    \/ /\ vpc = "EndpointChecked"
       /\ \E r \in FetchResponses(ToolBodies(vconfig.base_url)) : ToolCheck(r)
    \/ /\ vpc = "ToolChecked"
       /\ \E r \in FetchResponses(AgentBodies(vconfig.tool_id)) : AgentCheck(r)

\* the same, and the write of the record file may stop early
NextFault ==
    \/ Next
    \/ \E n \in 0..Len(RecordKeys) + 1 : PersistInterrupt(n)

Spec == Init /\ [][Next]_vars

SpecFault == Init /\ [][NextFault]_vars

\* a validation process that has loaded its inputs keeps executing: the script
\* is sequential and every HTTP exchange ends, with a response or an exception
ValidationStep ==
    \/ \E r \in EndpointResponses : EndpointCase(r)
    \/ /\ vpc = "EndpointChecked"
       /\ \E r \in FetchResponses(ToolBodies(vconfig.base_url)) : ToolCheck(r)
    \/ /\ vpc = "ToolChecked"
       /\ \E r \in FetchResponses(AgentBodies(vconfig.tool_id)) : AgentCheck(r)

SpecLive == Init /\ [][Next]_vars /\ WF_vars(ValidationStep)

\* a provisioning process that has loaded its configuration keeps executing:
\* the script is sequential and every create call ends, with a result or an
\* exception
ProvisionStep ==
    \/ \E o \in CreateOutcomes : CreateWebhookTool(o)
    \/ \E o \in CreateOutcomes : CreateAgent(o)
    \/ PersistOpen
    \/ PersistDump

SpecRun == Init /\ [][Next]_vars /\ WF_vars(ProvisionStep)

-----------------------------------------------------------------------------
(* Properties *)

IsCreate(c, op) == c.op = op

\* C1: in every provisioning run the agent-creation call is issued only after
\* the tool-creation call of the same run returned an identifier; when tool
\* creation fails (rejection or transport error) the run has ended Failed and
\* issued no agent-creation call.
C1_AgentOnlyAfterToolId ==
    \A i \in 1..Len(calls) :
        /\ IsCreate(calls[i], "agents.create") =>
              \E j \in 1..(i - 1) : /\ IsCreate(calls[j], "tools.create")
                                    /\ Truthy(calls[j].result)
        /\ (IsCreate(calls[i], "tools.create") /\ ~Truthy(calls[i].result)) =>
              /\ pc = "Failed"
              /\ \A k \in 1..Len(calls) : ~IsCreate(calls[k], "agents.create")

C1_Witness ==
    /\ pc = "Failed"
    /\ Len(calls) = 1
    /\ IsCreate(calls[1], "tools.create")
    /\ ~Truthy(calls[1].result)

\* C2: a provisioning run in which a registration call failed has ended Failed
\* and the record file is what it was when the run started.
C2_FailedRunWritesNothing ==
    (\E i \in 1..Len(calls) : ~Truthy(calls[i].result)) =>
        (pc = "Failed" /\ file = fileAtStart)

C2_Witness ==
    /\ pc = "Failed"
    /\ Len(calls) = 2
    /\ ~Truthy(calls[2].result)
    /\ fileAtStart.exists
    /\ JsonValid(fileAtStart.content)

\* C3: once a run that reached the write has ended, completed or interrupted,
\* the record file holds the complete new record or is what it was before the
\* run.
C3_PersistAtomic ==
    pc \in {"Persisted", "Interrupted"} =>
        \/ file = fileAtStart
        \/ file = [exists |-> TRUE, content |-> JsonDump(SetupConfig)]

\* C4: whenever no write is in progress the record file is absent if no run
\* succeeded yet, and otherwise parses to exactly the tool_id, agent_id and base
\* URL of the latest successful run, with the four keys of a record and nothing
\* of an earlier record.
C4_RecordIsLastSuccess ==
    pc # "Writing" =>
        IF lastSuccess = None
          THEN ~file.exists
          ELSE /\ file.exists
               /\ JsonValid(file.content)
               /\ LET d == JsonLoad(file.content)
                  IN  /\ DOMAIN d = {"tool_id", "agent_id", "vercel_url", "created_at"}
                      /\ <<d["tool_id"], d["agent_id"], d["vercel_url"]>> = lastSuccess

C4_Witness ==
    /\ pc = "Persisted"
    /\ fileAtStart.exists
    /\ JsonValid(fileAtStart.content)
    /\ JsonLoad(fileAtStart.content)["tool_id"] # tool_id
    /\ JsonLoad(fileAtStart.content)["vercel_url"] # config.vercel_url

AllChecksIssued ==
    /\ Len(vcalls) = 7
    /\ \A i \in 1..5 : vcalls[i].url = vconfig.base_url \o <<"/api/showtimes">>
    /\ vcalls[6].url = <<"https://api.elevenlabs.io/v1/convai/tools/">> \o vconfig.tool_id
    /\ vcalls[7].url = <<"https://api.elevenlabs.io/v1/convai/agents/">> \o vconfig.agent_id

C6_NoRecordNoCalls ==
    (vpc # "Idle" /\ ~file.exists) =>
        /\ vpc = "Aborted"
        /\ vcalls = <<>>
        /\ vreport.detail = <<"MissingLocalRecord">>

C6_Witness ==
    /\ vpc = "Aborted"
    /\ ~file.exists
    /\ Truthy(Getenv(env, "ELEVENLABS_API_KEY", None))

\* C7: in the live-endpoint check every response with a non-2xx status is
\* reported as a failure, with the response body as the detail.
C7_Non2xxIsFail ==
    (vreport.check = "endpoint" /\ ~vresponse.raises /\ vresponse.status \notin 200..299) =>
        /\ ReportsFailure(vreport)
        /\ vreport.detail = vresponse.body

KeyAbsent == ~Truthy(Getenv(env, "ELEVENLABS_API_KEY", None))

\* C8: with the API key absent (unset or empty) a provisioning run has ended
\* with exit status 1 before any create call and with the record file as it
\* was, and a validation run has aborted without any HTTP request.
C8_MissingCredentialAborts ==
    KeyAbsent =>
        /\ pc # "Idle" =>
              /\ pc = "Failed"
              /\ exit_code = <<1>>
              /\ calls = <<>>
              /\ file = fileAtStart
        /\ vpc # "Idle" =>
              /\ vpc = "Aborted"
              /\ vcalls = <<>>
              /\ file.exists => vreport.detail = <<"MissingCredential">>

C8_Witness ==
    /\ KeyAbsent
    /\ pc = "Failed"
    /\ file.exists

Range(seq) == {seq[i] : i \in 1..Len(seq)}

\* C9: every tool-creation request carries a schema whose url is the run's base
\* URL followed by "/api/showtimes", whose method is GET, which rejects
\* additional properties, and which declares exactly date, movie_title,
\* day_type (today, tomorrow, weekend) and time_preference (afternoon, evening,
\* night).
C9_ToolSchemaShape ==
    \A i \in 1..Len(calls) :
        IsCreate(calls[i], "tools.create") =>
            LET s == calls[i].request.api_schema
                q == s.query_params_schema
            IN  /\ s.url = Getenv(env, "VERCEL_APP_URL", PlaceholderUrl)
                                \o <<"/api/showtimes">>
                /\ s.method = "GET"
                /\ q.additionalProperties = FALSE
                /\ DOMAIN q.properties =
                        {"date", "movie_title", "day_type", "time_preference"}
                /\ Range(q.properties.day_type.enum) = {"today", "tomorrow", "weekend"}
                /\ Range(q.properties.time_preference.enum) =
                        {"afternoon", "evening", "night"}

C9_Witness ==
    /\ Len(calls) >= 1
    /\ IsCreate(calls[1], "tools.create")
    /\ Getenv(env, "VERCEL_APP_URL", None) = <<"https://a.example">>

\* C10: the agent configuration binds <<tool_id>> for an identifier and nothing
\* for None; every agent-creation request of a run binds exactly one tool, the
\* identifier the run's tool creation returned, and that tool is stored on the
\* platform.
C10_AgentBindsRunTool ==
    /\ \A t \in {None} \cup {x.tool_id : x \in remoteTools} :
          AgentConfig(t).conversation_config.agent.prompt.tools =
              IF t = None THEN <<>> ELSE <<t>>
    /\ \A i \in 1..Len(calls) :
          IsCreate(calls[i], "agents.create") =>
              LET tools == calls[i].request.conversation_config.agent.prompt.tools
              IN  /\ Len(tools) = 1
                  /\ IsCreate(calls[1], "tools.create")
                  /\ tools[1] = calls[1].result
                  /\ \E x \in remoteTools : x.tool_id = tools[1]

C10_Witness ==
    /\ Len(calls) = 2
    /\ IsCreate(calls[2], "agents.create")
    /\ Cardinality(remoteTools) >= 2

\* the tool record the run expects: the name and the schema it registered
ExpectedTool(resp) ==
    /\ Get(resp.body, "name", None) = "Miami Theater Showtimes"
    /\ "tool_config" \in DOMAIN resp.body
    /\ resp.body.tool_config.api_schema.url = vconfig.base_url \o <<"/api/showtimes">>
    /\ resp.body.tool_config.api_schema.method = "GET"

\* C11: the tool-record check reports a failure for a 200 response whose name,
\* URL or method is not the expected one, reports "not found" for a 404, and
\* reports a failure with the status and the body for any other non-2xx status.
C11_ToolCheckAsserts ==
    (vreport.check = "tool" /\ ~vresponse.raises /\ vresponse.is_json) =>
        /\ (vresponse.status = 200 /\ ~ExpectedTool(vresponse)) => ReportsFailure(vreport)
        /\ vresponse.status = 404 => vreport.marker = "not found"
        /\ vresponse.status \notin 200..299 =>
              /\ ReportsFailure(vreport)
              /\ vreport.status = vresponse.status
              /\ vreport.detail = vresponse.body

\* the tools a fetched agent record binds
BoundToolsOf(body) ==
    Get(Get(Get(Get(body, "conversation_config", NoDict), "agent", NoDict),
            "prompt", NoDict), "tools", <<>>)

\* C12: the agent-record check reports a failure for a 200 response whose
\* bound-tool list is empty or missing.
C12_AgentCheckAsserts ==
    (/\ vreport.check = "agent"
     /\ ~vresponse.raises
     /\ vresponse.is_json
     /\ vresponse.status = 200
     /\ BoundToolsOf(vresponse.body) = <<>>) => ReportsFailure(vreport)

HasCount(body) ==
    /\ "query_info" \in DOMAIN body
    /\ "results_count" \in DOMAIN body.query_info

\* C13: for a 2xx response the live-endpoint check reports no failure only when
\* the body is JSON with query_info.results_count, and then the count it
\* reports is that value.
C13_PassNeedsCount ==
    (/\ vreport.check = "endpoint"
     /\ ~vresponse.raises
     /\ vresponse.status \in 200..299
     /\ ~ReportsFailure(vreport)) =>
        /\ vresponse.is_json
        /\ HasCount(vresponse.body)
        /\ vreport.fields.results = vresponse.body.query_info.results_count

\* C14: the live-endpoint check issues one GET per query shape, in order, each
\* to the showtimes URL with exactly that shape's parameters; it is past the
\* loop only after all five, whatever the cases reported, and no later request
\* goes to the showtimes URL.
C14_OneGetPerShape ==
    LET shapes == <<[day_type |-> "today"],
                    [day_type |-> "tomorrow"],
                    [day_type |-> "weekend"],
                    [movie_title |-> "substance"],
                    [time_preference |-> "evening", day_type |-> "today"]>>
    IN  /\ vpc = "Loaded" => (vcase \in 1..5 /\ Len(vcalls) = vcase - 1)
        /\ vpc \in {"EndpointChecked", "ToolChecked", "Done"} => Len(vcalls) >= 5
        /\ \A i \in 1..Len(vcalls) :
              IF i <= 5
                THEN /\ vcalls[i].op = "GET"
                     /\ vcalls[i].url = vconfig.base_url \o <<"/api/showtimes">>
                     /\ vcalls[i].params = shapes[i]
                ELSE vcalls[i].url # vconfig.base_url \o <<"/api/showtimes">>

C14_Witness ==
    /\ vpc = "EndpointChecked"
    /\ Len(vcalls) = 5
    /\ "endpoint" \in vfailed
    /\ ~ReportsFailure(vreport)

\* the state of the Provisioner's state machine a position of main stands for
Phase(p) ==
    CASE p \in {"Idle", "ConfigLoaded"} -> "Idle"
      [] p = "ToolRegistered" -> "ToolRegistered"
      [] p \in {"AgentRegistered", "Writing"} -> "AgentRegistered"
      [] p = "Persisted" -> "Persisted"
      [] OTHER -> "Failed"

RunTransitions ==
    {<<"Idle", "ToolRegistered">>, <<"ToolRegistered", "AgentRegistered">>,
     <<"AgentRegistered", "AgentRegistered">>, <<"AgentRegistered", "Persisted">>,
     <<"Idle", "Failed">>, <<"ToolRegistered", "Failed">>}

CallCount(op) == Cardinality({i \in 1..Len(calls) : calls[i].op = op})

\* C15: within a run the position of main moves only along Idle ->
\* ToolRegistered -> AgentRegistered -> Persisted or from Idle or ToolRegistered
\* to Failed, never out of Persisted or Failed; a run issues at most one
\* tool-creation and one agent-creation call; and every run that has loaded its
\* configuration ends Persisted or Failed.
C15_RunStateMachine ==
    /\ [](CallCount("tools.create") <= 1 /\ CallCount("agents.create") <= 1)
    /\ [][(runs' = runs /\ vruns' = vruns /\ pc' # pc) =>
              <<Phase(pc), Phase(pc')>> \in RunTransitions]_vars
    /\ (pc \in {"ConfigLoaded", "ToolRegistered", "AgentRegistered", "Writing"})
          ~> (pc \in {"Persisted", "Failed"})

C15_Witness ==
    /\ pc = "Persisted"
    /\ runs = 2
    /\ CallCount("tools.create") = 1
    /\ CallCount("agents.create") = 1

\* C16: a successful run that replaces the record of an earlier successful run
\* writes a created_at different from the one it replaces.
C16_CreatedAtIsRunTime ==
    (pc = "Persisted" /\ runs = 2 /\ fileAtStart.exists /\ JsonValid(fileAtStart.content)) =>
        JsonLoad(file.content)["created_at"] # JsonLoad(fileAtStart.content)["created_at"]

UrlUnset == "VERCEL_APP_URL" \notin DOMAIN env

KeySupplied == "ELEVENLABS_API_KEY" \in DOMAIN env /\ Truthy(env["ELEVENLABS_API_KEY"])

\* C17: a provisioning run started with the API key set and VERCEL_APP_URL unset
\* does not end at load_config: it has printed the warning, carries the
\* placeholder as its base URL, sends the placeholder plus "/api/showtimes" as
\* the tool's URL, and a tool it registered and a record it wrote hold the
\* placeholder.
C17_PlaceholderContinues ==
    (pc # "Idle" /\ UrlUnset /\ KeySupplied) =>
        /\ warned
        /\ config # None
        /\ config.vercel_url = <<"https://your-vercel-app.vercel.app">>
        /\ pc = "Failed" => Len(calls) >= 1
        /\ pc # "ConfigLoaded" =>
              /\ Len(calls) >= 1
              /\ calls[1].op = "tools.create"
              /\ calls[1].request.api_schema.url =
                    <<"https://your-vercel-app.vercel.app", "/api/showtimes">>
        /\ Truthy(tool_id) =>
              \E t \in remoteTools :
                  /\ t.tool_id = tool_id
                  /\ t.tool_config.api_schema.url =
                        <<"https://your-vercel-app.vercel.app", "/api/showtimes">>
        /\ pc = "Persisted" =>
              /\ JsonValid(file.content)
              /\ JsonLoad(file.content)["vercel_url"] = <<"https://your-vercel-app.vercel.app">>

C17_Witness ==
    /\ pc = "Persisted"
    /\ UrlUnset
    /\ KeySupplied
    /\ warned
    /\ JsonLoad(file.content)["vercel_url"] = PlaceholderUrl

ToolIds == {t.tool_id : t \in remoteTools}

RecordedToolIds ==
    IF file.exists /\ JsonValid(file.content)
    THEN {JsonLoad(file.content)["tool_id"]}
    ELSE {}

\* the remote tools no persisted record references
Orphans == ToolIds \ RecordedToolIds

\* C18: no step removes a remote tool or agent; the step that registers a tool
\* adds one new tool that no record references; the failed agent registration
\* that follows leaves the tools as they are, so the run ends with its tool
\* stored remotely and referenced by no record, one more such tool than before
\* the run.
C18_OrphanedTool ==
    /\ [][remoteTools \subseteq remoteTools' /\ remoteAgents \subseteq remoteAgents']_vars
    /\ [][(pc = "ConfigLoaded" /\ pc' = "ToolRegistered") =>
              (tool_id' \notin ToolIds /\ Orphans' = Orphans \cup {tool_id'})]_vars
    /\ [][(pc = "ToolRegistered" /\ pc' = "Failed") =>
              (remoteTools' = remoteTools /\ Orphans' = Orphans)]_vars
    /\ []((pc = "Failed" /\ Truthy(tool_id)) => tool_id \in Orphans)

C18_Witness ==
    /\ pc = "Failed"
    /\ runs = 2
    /\ Len(calls) = 2
    /\ Truthy(tool_id)
    /\ tool_id \in Orphans
    /\ Cardinality(Orphans) = 2
    /\ remoteAgents = {}

\* C19: every step of a validation run leaves the record file, the remote tools
\* and the remote agents as they were, and every request a validation run
\* sends is a GET.
C19_ValidationReadOnly ==
    /\ [](\A i \in 1..Len(vcalls) : vcalls[i].op = "GET")
    /\ [][(runs' = runs /\ (vruns' # vruns \/ vpc' # vpc \/ vcalls' # vcalls)) =>
              (file' = file /\ remoteTools' = remoteTools /\ remoteAgents' = remoteAgents)]_vars

C19_Witness ==
    /\ vpc = "Done"
    /\ Len(vcalls) = 7
    /\ vfailed = {"endpoint", "tool", "agent"}
    /\ file.exists
    /\ JsonValid(file.content)
    /\ Cardinality(remoteTools) = 1
    /\ Cardinality(remoteAgents) = 1

====
